---- MODULE Spec2Model ----
(***************************************************************************)
(* Model of md2pdf's adaptive page-sizing engine:                          *)
(*   src/src/images/loader.ts   binary PNG / JPEG header parser            *)
(*   src/src/pdf/generator.ts   image extent calculator, measurement       *)
(*                              driver, extent corrector, font             *)
(*                              registration, final render and resize      *)
(*   src/src/converter.ts       convert: replaceFailedImages, the write of *)
(*                              the output file; the command line          *)
(*   src/src/images/loader.ts   loadImage, loadImages                      *)
(*   src/src/config             paper sizes and margin presets             *)
(* JavaScript numbers are modelled as exact rationals extended with        *)
(* +Infinity and NaN (IEEE rounding is not modelled).                      *)
(***************************************************************************)
EXTENDS Integers, Naturals, Sequences, FiniteSets, TLC

VARIABLES
    \* ---- generatePDF (generator.ts) ----
    content,               \* Content[] handed to generatePDF
    imageDimensions,       \* options.imageDimensions: image id -> {width,height}
    pageMargins,           \* options.pageMargins [left, top, right, bottom]
    pc,                    \* position inside generatePDF / the fit harness
    maxY,                  \* measureContentHeight: let maxY
    pageCount,             \* measureContentHeight: let pageCount
    measuredImageHeights,  \* measureContentHeight: image id -> top position
    observed,              \* history: the nodes the engine passed to pageBreakBefore
    renderedHeight,        \* calculateImageHeights: const renderedHeight, per image id
    imageHeights,          \* generatePDF: const imageHeights
    imageHeightCorrection, \* generatePDF: let imageHeightCorrection
    contentHeight,         \* generatePDF: let contentHeight
    targetHeight,          \* generatePDF: const targetHeight
    returned,              \* history: what pageBreakBefore returned, per invocation
    fonts,                 \* options.fonts: the caller's LoadedFonts
    heap,                  \* the arrays of the JavaScript heap, by reference
    registrations,         \* history: every value assigned to pdfmake.fonts
    engineLog,             \* history: the calls made on the layout engine
    pdfBuffer,             \* generatePDF: const pdfBuffer, the pages as rendered
    pages,                 \* the pages of pdfDoc
    pdfOps,                \* history: the calls made on pdfDoc and its pages
    failure,               \* the stage whose failure rejected generatePDF
    outputWritten,         \* convert: Bun.write(outputPath, pdfBuffer) was called
    \* ---- getImageDimensions (loader.ts) ----
    buffer,                \* ArrayBuffer, a sequence of bytes
    mimeType,              \* declared MIME type
    ipc,                   \* position inside getImageDimensions
    offset,                \* getJpegDimensions: let offset
    result,                \* what the call produced: dimensions, null or a RangeError
    head,                  \* history: the 2-byte signature the stream was built with
    segs,                  \* history: the JPEG segments the stream was built from
    \* ---- loadImages (loader.ts), replaceFailedImages (converter.ts) ----
    images,                \* context.images: ImageInfo[], each with what its href leads to
    renderedContent,       \* convert: const content = renderTokens(...)
    loadResults,           \* the promises of images.map(loadImage): pending or settled
    completionOrder,       \* history: the order in which the loads settled
    loadedImages,          \* convert: const loadedImages = { data, dimensions }
    processedContent,      \* convert: const processedContent
    lpc,                   \* position inside convert, from loadImages on
    \* ---- the command line (parseArgs, main) ----
    args,                  \* process.argv.slice(2)
    parsed,                \* main: const parsed = parseArgs(args)
    cpc,                   \* position inside main
    exitCode,              \* process.exit(code), or "none"
    paper,                 \* convert: const paper = getPaperSize(...)
    cliMargins             \* convert: const pageMargins = getPageMargins(...)

genVars == <<content, imageDimensions, pageMargins, pc, maxY, pageCount,
             measuredImageHeights, observed, renderedHeight, imageHeights,
             imageHeightCorrection, contentHeight, targetHeight>>
imgVars == <<buffer, mimeType, ipc, offset, result, head, segs>>
engVars == <<fonts, heap, registrations, engineLog>>
docVars == <<pdfBuffer, pages, pdfOps>>
convVars == <<failure, outputWritten>>
runVars == <<returned, engVars, docVars, convVars>>
\* everything generatePDF computed before the final render
genData == <<content, imageDimensions, pageMargins, maxY, pageCount,
             measuredImageHeights, observed, renderedHeight, imageHeights,
             imageHeightCorrection, contentHeight, targetHeight, returned>>
loadVars == <<images, renderedContent, loadResults, completionOrder, loadedImages,
              processedContent, lpc>>
cliVars == <<args, parsed, cpc, exitCode, paper, cliMargins>>
auxVars == <<loadVars, cliVars>>
vars == <<genVars, imgVars, runVars, auxVars>>

-----------------------------------------------------------------------------
(* JavaScript numbers: finite rationals n/d in lowest terms (d > 0),       *)
(* +Infinity and NaN.                                                      *)

RECURSIVE GCD(_, _)
GCD(a, b) == IF b = 0 THEN a ELSE GCD(b, a % b)

Abs(i) == IF i < 0 THEN -i ELSE i

Fin(n, d) ==
    LET g == GCD(Abs(n), d)
    IN  [k |-> "fin", n |-> n \div g, d |-> d \div g]

Num(i) == Fin(i, 1)
PosInf == [k |-> "inf", n |-> 1, d |-> 0]
NaN == [k |-> "nan", n |-> 0, d |-> 0]

\* a / b for a finite a >= 0 and b >= 0, +Infinity or NaN
NDiv(a, b) ==
    IF a.k = "nan" \/ b.k = "nan" THEN NaN
    ELSE IF b.k = "inf" THEN (IF a.k = "inf" THEN NaN ELSE Num(0))
    ELSE IF a.k = "inf" THEN PosInf
    ELSE IF b.n = 0 THEN (IF a.n = 0 THEN NaN ELSE PosInf)
    ELSE Fin(a.n * b.d, a.d * b.n)

\* a > b; any comparison with NaN is false
NGt(a, b) ==
    IF a.k = "nan" \/ b.k = "nan" THEN FALSE
    ELSE IF a.k = "inf" THEN b.k # "inf"
    ELSE IF b.k = "inf" THEN FALSE
    ELSE a.n * b.d > b.n * a.d

NLt(a, b) == NGt(b, a)

NAdd(a, b) ==
    IF a.k = "nan" \/ b.k = "nan" THEN NaN
    ELSE IF a.k = "inf" \/ b.k = "inf" THEN PosInf
    ELSE Fin(a.n * b.d + b.n * a.d, a.d * b.d)

\* a - b for finite a, b
NSub(a, b) == Fin(a.n * b.d - b.n * a.d, a.d * b.d)

\* a * b for finite a, b
NMul(a, b) == Fin(a.n * b.n, a.d * b.d)

\* Math.max / Math.min: NaN if either argument is NaN
MathMax(a, b) ==
    IF a.k = "nan" \/ b.k = "nan" THEN NaN ELSE IF NGt(b, a) THEN b ELSE a

MathMin(a, b) ==
    IF a.k = "nan" \/ b.k = "nan" THEN NaN ELSE IF NLt(b, a) THEN b ELSE a

-----------------------------------------------------------------------------
(* Configuration constants.                                                *)

IMAGE_FIT_WIDTH == 500
IMAGE_FIT_HEIGHT == 400
MAX_PAGE_HEIGHT == 28347          \* Math.round(10000 * 2.83465)
bottomPadding == 25
paperWidth == 595          \* PAPER_SIZES.A4.width = Math.round(210 * 2.83465)
ImageMarginTop == 10              \* STYLES.margins.image[1]
ImageMarginBottom == 10           \* STYLES.margins.image[3]

MARGIN_PRESETS == { <<40, 40, 40, 40>>, <<20, 20, 20, 20>> }

ImageIds == {"img_0", "img_1"}

-----------------------------------------------------------------------------
(* Image Extent Calculator.                                                *)

calculateImageHeight_NoMin(dimensions) ==
    LET width == Num(dimensions.width)
        height == Num(dimensions.height)
        aspectRatio == NDiv(width, height)
        fitAspect == NDiv(Num(IMAGE_FIT_WIDTH), Num(IMAGE_FIT_HEIGHT))
    IN  IF NGt(aspectRatio, fitAspect)
        THEN NDiv(Num(IMAGE_FIT_WIDTH), aspectRatio)
        ELSE Num(IMAGE_FIT_HEIGHT)

calculateImageHeight(dimensions) ==
    LET width == Num(dimensions.width)
        height == Num(dimensions.height)
        aspectRatio == NDiv(width, height)
        fitAspect == NDiv(Num(IMAGE_FIT_WIDTH), Num(IMAGE_FIT_HEIGHT))
    IN  IF NGt(aspectRatio, fitAspect)
        THEN NDiv(Num(IMAGE_FIT_WIDTH), aspectRatio)
        ELSE MathMin(height, Num(IMAGE_FIT_HEIGHT))

\* as Put, keeping the value a key already has
Put_KeepFirst(f, key, v) ==
    [x \in DOMAIN f \cup {key} |-> IF x \in DOMAIN f THEN f[x] ELSE v]

\* heights[imageId] = totalHeight
Put(f, key, v) == [x \in DOMAIN f \cup {key} |-> IF x = key THEN v ELSE f[x]]

EmptyMap == [x \in {} |-> 0]

RECURSIVE processContent(_, _, _)
processContent(items, dimsById, heights) ==
    IF items = <<>> THEN heights
    ELSE
        LET item == Head(items)
            h1 == IF "image" \in DOMAIN item /\ item.image \in DOMAIN dimsById
                  THEN Put(heights, item.image,
                           NAdd(NAdd(calculateImageHeight(dimsById[item.image]),
                                     Num(ImageMarginTop)), Num(ImageMarginBottom)))
                  ELSE heights
            h2 == IF "stack" \in DOMAIN item
                  THEN processContent(item.stack, dimsById, h1) ELSE h1
            h3 == IF "columns" \in DOMAIN item
                  THEN processContent(item.columns, dimsById, h2) ELSE h2
        IN  processContent(Tail(items), dimsById, h3)

calculateImageHeights(items, dimsById) == processContent(items, dimsById, EmptyMap)

-----------------------------------------------------------------------------
(* Content trees (the renderer's output) and the nodes the layout engine   *)
(* hands to the observation callback.                                      *)

TextNode == [text |-> "t"]
\* renderImage: { image: imageId, fit: [500, 400], margin: STYLES.margins.image }
ImageFit_Smaller == <<500, 300>>
ImageFit == <<500, 400>>
ImageMargin == <<0, 10, 0, 10>>
ImageNode(id) == [image |-> id, fit |-> ImageFit, margin |-> ImageMargin]

Trees ==
    { <<>>,
      <<TextNode>>,
      <<TextNode, ImageNode("img_0")>>,
      <<ImageNode("img_0"), [stack |-> <<ImageNode("img_1"), TextNode>>]>>,
      <<[columns |-> <<ImageNode("img_1"), ImageNode("img_1")>>], TextNode>> }

\* the image ids of the image nodes of a tree
RECURSIVE ImagesOf(_)
ImagesOf(items) ==
    IF items = <<>> THEN {}
    ELSE
        LET item == Head(items)
        IN  (IF "image" \in DOMAIN item THEN {item.image} ELSE {})
            \cup (IF "stack" \in DOMAIN item THEN ImagesOf(item.stack) ELSE {})
            \cup (IF "columns" \in DOMAIN item THEN ImagesOf(item.columns) ELSE {})
            \cup ImagesOf(Tail(items))

MaxObs == 2        \* callbacks per measurement pass

\* startPosition: page numbers count from 1, top is relative to its page
StartPositions ==
    { [pageNumber |-> 1, top |-> Num(40)],
      [pageNumber |-> 2, top |-> Fin(601, 2)] }
NodeHeights == { Num(50) }

\* currentNode: optional image, startPosition and height properties; an empty
\* tree has no node to observe
EngineNodes(items) ==
    IF items = <<>> THEN {}
    ELSE
    { img @@ pos @@ h :
        img \in {EmptyMap} \cup { [image |-> id] : id \in ImagesOf(items) },
        pos \in {EmptyMap} \cup { [startPosition |-> p] : p \in StartPositions },
        h \in {EmptyMap} \cup { [height |-> x] : x \in NodeHeights } }

\* options.imageDimensions: parsed dimensions for any subset of the image ids
GenDims ==
    [img_0 |-> [width |-> 300, height |-> 100],
     img_1 |-> [width |-> 400, height |-> 1000]]
DimensionMaps == { [id \in S |-> GenDims[id]] : S \in SUBSET ImageIds }

-----------------------------------------------------------------------------
(* Font registration: deepCopyFonts, setupFonts.  A font definition is a   *)
(* string or an array; arrays live in the heap and are held by reference,  *)
(* so that two definitions can share one array.                            *)

Str(s) == [t |-> "str", v |-> s]
Ref(r) == [t |-> "ref", r |-> r]

FontStyles == { "normal", "bold", "italics", "bolditalics" }

\* the built-in families setupFonts always registers
BuiltinFonts ==
    [Courier |-> [normal |-> Str("Courier"), bold |-> Str("Courier-Bold"),
                  italics |-> Str("Courier-Oblique"),
                  bolditalics |-> Str("Courier-BoldOblique")],
     Helvetica |-> [normal |-> Str("Helvetica"), bold |-> Str("Helvetica-Bold"),
                    italics |-> Str("Helvetica-Oblique"),
                    bolditalics |-> Str("Helvetica-BoldOblique")],
     Times |-> [normal |-> Str("Times-Roman"), bold |-> Str("Times-Bold"),
                italics |-> Str("Times-Italic"),
                bolditalics |-> Str("Times-BoldItalic")],
     Symbol |-> [normal |-> Str("Symbol")],
     ZapfDingbats |-> [normal |-> Str("ZapfDingbats")]]

\* buildFontSystem: no custom font, a TTF/OTF font (fontDef is the file key),
\* or a TTC font (fontDef is one array [fontKey, postScriptName] that all four
\* styles share); each comes with the heap that holds its arrays
FontsBuiltin ==
    [fonts |-> [vfs |-> {}, fonts |-> EmptyMap, defaultFont |-> "Helvetica"],
     heap |-> <<>>]
FontsTTF ==
    [fonts |-> [vfs |-> {"JP.ttf"},
                fonts |-> [JP |-> [st \in FontStyles |-> Str("JP.ttf")]],
                defaultFont |-> "JP"],
     heap |-> <<>>]
FontsTTC ==
    [fonts |-> [vfs |-> {"JP.ttf"},
                fonts |-> [JP |-> [st \in FontStyles |-> Ref(1)]],
                defaultFont |-> "JP"],
     heap |-> << <<"JP.ttf", "HiraginoSans-W3">> >>]
FontSystems == { FontsBuiltin, FontsTTF, FontsTTC }

\* the <<family, style>> cells of a font dictionary that hold an array
ArrayCells(dict) ==
    { c \in UNION { { <<fam, st>> : st \in DOMAIN dict[fam] } : fam \in DOMAIN dict } :
          dict[c[1]][c[2]].t = "ref" }

\* the arrays a font dictionary refers to
RefsOf(dict) == { dict[c[1]][c[2]].r : c \in ArrayCells(dict) }

\* as deepCopyFonts, with v in place of [...v]: the arrays are shared
deepCopyFonts_Shared(dict, h, cells) == [fonts |-> dict, heap |-> h]

\* result[key][k] = Array.isArray(v) ? [...v] : v, cell by cell: every array
\* is copied into a newly allocated one
RECURSIVE deepCopyFonts(_, _, _)
deepCopyFonts(dict, h, cells) ==
    IF cells = {} THEN [fonts |-> dict, heap |-> h]
    ELSE LET c == CHOOSE x \in cells : TRUE
             v == dict[c[1]][c[2]]
             fresh == Len(h) + 1
         IN  deepCopyFonts([dict EXCEPT ![c[1]][c[2]] = Ref(fresh)],
                           Append(h, h[v.r]), cells \ {c})

\* allFonts = deepCopyFonts({ ...built-ins, ...deepCopyFonts(fonts.fonts) })
setupFonts(loaded, h) ==
    LET custom == deepCopyFonts(loaded.fonts, h, ArrayCells(loaded.fonts))
        merged == custom.fonts @@ BuiltinFonts
    IN  deepCopyFonts(merged, custom.heap, ArrayCells(merged))

\* the engine calls setupFonts makes: one vfs.writeFileSync per file of
\* fonts.vfs, then the assignment of pdfmake.fonts
RECURSIVE vfsWrites(_)
vfsWrites(files) ==
    IF files = {} THEN <<>>
    ELSE LET f == CHOOSE x \in files : TRUE
         IN  <<"vfs.writeFileSync">> \o vfsWrites(files \ {f})
setupFontsCalls(loaded) == vfsWrites(loaded.vfs) \o <<"pdfmake.fonts=">>

\* setupFonts(fonts); pdfmake.createPdf(doc)
SetupAndCreate ==
    LET reg == setupFonts(fonts, heap)
    IN  /\ heap' = reg.heap
        /\ registrations' = Append(registrations, reg.fonts)
        /\ engineLog' = engineLog \o setupFontsCalls(fonts) \o <<"createPdf">>
        /\ fonts' = fonts

\* the layout engine resolves the registered fonts while it renders, writing
\* into every array of the current registration
ResolvedArray == <<"resolved">>
EngineResolve(h) ==
    LET live == RefsOf(registrations[Len(registrations)])
    IN  [r \in 1..Len(h) |-> IF r \in live THEN ResolvedArray ELSE h[r]]

\* await pdf.getBuffer(), fulfilled
GetBuffer ==
    /\ heap' = EngineResolve(heap)
    /\ engineLog' = Append(engineLog, "getBuffer")
    /\ UNCHANGED <<fonts, registrations>>

-----------------------------------------------------------------------------
(* Measurement Driver: measureContentHeight.                               *)

pageHeightUsable == MAX_PAGE_HEIGHT - pageMargins[2] - pageMargins[4]

HasStart(node) == "startPosition" \in DOMAIN node

\* currentNode.height || 0
HeightOrZero(node) == IF "height" \in DOMAIN node THEN node.height ELSE Num(0)

\* as nodeBottom, with the page offset left out
nodeBottom_NoPageOffset(node) == NAdd(node.startPosition.top, HeightOrZero(node))

\* (pageNumber - 1) * pageHeightUsable + top + (height || 0)
nodeBottom(node) ==
    LET pageOffset == Num((node.startPosition.pageNumber - 1) * pageHeightUsable)
    IN  NAdd(NAdd(pageOffset, node.startPosition.top), HeightOrZero(node))

\* currentNode.startPosition?.top || 0
imageTop(node) == IF HasStart(node) THEN node.startPosition.top ELSE Num(0)

\* as pageBreakBeforeReturn, forcing a break before a node of a later page
pageBreakBeforeReturn_OnLaterPage(currentNode) ==
    HasStart(currentNode) /\ currentNode.startPosition.pageNumber > 1

\* return false
pageBreakBeforeReturn(currentNode) == FALSE

\* measureContentHeight up to createPdf(measureDoc): maxY = 0, pageCount = 0,
\* measuredImageHeights = {} are the values the pass starts from
MeasureStart ==
    /\ pc = "start"
    /\ pc' = "measure"
    /\ SetupAndCreate
    /\ UNCHANGED <<genData, docVars, convVars>>
    /\ UNCHANGED imgVars
    /\ UNCHANGED auxVars

pageBreakBefore(currentNode) ==
    /\ pc = "measure"
    /\ Len(observed) < MaxObs
    /\ pageCount' = IF HasStart(currentNode)
                       /\ currentNode.startPosition.pageNumber > pageCount
                    THEN currentNode.startPosition.pageNumber
                    ELSE pageCount
    /\ measuredImageHeights' =
           IF "image" \in DOMAIN currentNode
           THEN Put(measuredImageHeights, currentNode.image, imageTop(currentNode))
           ELSE measuredImageHeights
    /\ maxY' = IF HasStart(currentNode)
               THEN MathMax(maxY, nodeBottom(currentNode))
               ELSE maxY
    /\ observed' = Append(observed, currentNode)
    /\ returned' = Append(returned, pageBreakBeforeReturn(currentNode))
    /\ UNCHANGED <<content, imageDimensions, pageMargins, pc, renderedHeight,
                   imageHeights, imageHeightCorrection, contentHeight, targetHeight>>
    /\ UNCHANGED <<engVars, docVars, convVars>>
    /\ UNCHANGED imgVars
    /\ UNCHANGED auxVars

\* await measurePdf.getBuffer(); return { maxY, measuredImageHeights }
MeasureReturn ==
    /\ pc = "measure"
    /\ pc' = "measured"
    /\ GetBuffer
    /\ UNCHANGED <<genData, docVars, convVars>>
    /\ UNCHANGED imgVars
    /\ UNCHANGED auxVars

\* as MeasureFail, with the rejection swallowed: the pass returns what it has
MeasureFail_Swallowed ==
    /\ pc = "measure"
    /\ pc' = "measured"
    /\ failure' = "measure"
    /\ UNCHANGED <<genData, engVars, docVars, outputWritten>>
    /\ UNCHANGED imgVars
    /\ UNCHANGED auxVars

\* await measurePdf.getBuffer() rejects: measureContentHeight rejects, and
\* generatePDF, which awaits it outside any try, rejects with it
MeasureFail ==
    /\ pc = "measure"
    /\ pc' = "failed"
    /\ failure' = "measure"
    /\ UNCHANGED <<genData, engVars, docVars, outputWritten>>
    /\ UNCHANGED imgVars
    /\ UNCHANGED auxVars

-----------------------------------------------------------------------------
(* Extent Corrector: generatePDF, from the measurement to targetHeight.    *)

RECURSIVE SumOver(_, _)
SumOver(f, S) ==
    IF S = {} THEN Num(0)
    ELSE LET x == CHOOSE y \in S : TRUE
         IN  NAdd(f[x], SumOver(f, S \ {x}))

\* as HeightOrZeroOf, an image without a footprint counting as a full fit box
HeightOrZeroOf_FullBox(heights, id) ==
    IF id \in DOMAIN heights THEN heights[id]
    ELSE Num(IMAGE_FIT_HEIGHT + ImageMarginTop + ImageMarginBottom)

\* imageHeights[imageId] || 0
HeightOrZeroOf(heights, id) == IF id \in DOMAIN heights THEN heights[id] ELSE Num(0)

\* as maxExpectedBottom, with expectedBottom = topPosition alone
RECURSIVE maxExpectedBottom_TopOnly(_, _, _)
maxExpectedBottom_TopOnly(positions, heights, S) ==
    IF S = {} THEN Num(0)
    ELSE LET id == CHOOSE y \in S : TRUE
         IN  MathMax(maxExpectedBottom_TopOnly(positions, heights, S \ {id}),
                     positions[id])

RECURSIVE maxExpectedBottom(_, _, _)
maxExpectedBottom(positions, heights, S) ==
    IF S = {} THEN Num(0)
    ELSE LET id == CHOOSE y \in S : TRUE
             expectedBottom == NAdd(positions[id], HeightOrZeroOf(heights, id))
         IN  MathMax(maxExpectedBottom(positions, heights, S \ {id}), expectedBottom)

\* as FallbackFactor, with the sign turned
FallbackFactor_Negative == Fin(-22, 100)

FallbackFactor == Fin(22, 100)

\* as correctionFor, without the test maxY < maxExpectedBottom
correctionFor_Unguarded(heights, positions, measuredMaxY) ==
    LET totalImageHeight == SumOver(heights, DOMAIN heights)
        hasImagePositions == DOMAIN positions # {}
        maxBottom == maxExpectedBottom(positions, heights, DOMAIN positions)
    IN  IF hasImagePositions /\ NGt(totalImageHeight, Num(0))
        THEN NSub(maxBottom, measuredMaxY)
        ELSE IF NGt(totalImageHeight, Num(0))
        THEN NMul(totalImageHeight, FallbackFactor)
        ELSE Num(0)

correctionFor(heights, positions, measuredMaxY) ==
    LET totalImageHeight == SumOver(heights, DOMAIN heights)
        hasImagePositions == DOMAIN positions # {}
        maxBottom == maxExpectedBottom(positions, heights, DOMAIN positions)
    IN  IF hasImagePositions /\ NGt(totalImageHeight, Num(0))
        THEN IF NLt(measuredMaxY, maxBottom) THEN NSub(maxBottom, measuredMaxY)
             ELSE Num(0)
        ELSE IF NGt(totalImageHeight, Num(0))
        THEN NMul(totalImageHeight, FallbackFactor)
        ELSE Num(0)

\* topMargin + contentHeight + bottomMargin + bottomPadding
targetHeightFor_NoPadding(height) ==
    NAdd(NAdd(Num(pageMargins[2]), height), Num(pageMargins[4]))

targetHeightFor(height) ==
    NAdd(NAdd(NAdd(Num(pageMargins[2]), height), Num(pageMargins[4])),
         Num(bottomPadding))

CorrectExtent ==
    /\ pc = "measured"
    /\ LET heights == calculateImageHeights(content, imageDimensions)
           totalImageHeight == SumOver(heights, DOMAIN heights)
           correction == correctionFor(heights, measuredImageHeights, maxY)
           height == IF NGt(totalImageHeight, Num(0))
                     THEN NAdd(maxY, correction)
                     ELSE maxY
       IN  /\ imageHeights' = heights
           /\ renderedHeight' = [id \in DOMAIN heights |->
                                    calculateImageHeight(imageDimensions[id])]
           /\ imageHeightCorrection' = correction
           /\ contentHeight' = height
           /\ targetHeight' = targetHeightFor(height)
    /\ pc' = "render"
    /\ UNCHANGED <<content, imageDimensions, pageMargins, maxY, pageCount,
                   measuredImageHeights, observed>>
    /\ UNCHANGED runVars
    /\ UNCHANGED imgVars
    /\ UNCHANGED auxVars

-----------------------------------------------------------------------------
(* Final render and resize: generatePDF from createDocDefinition to the    *)
(* returned buffer, and convert's write of the output file.                *)

MaxPages == 2      \* pages the final render may produce

\* a page as the engine renders it: paper.width by MAX_PAGE_HEIGHT, content
\* not translated
RenderedPage(i) ==
    [orig |-> i, width |-> Num(paperWidth), height |-> Num(MAX_PAGE_HEIGHT),
     tx |-> Num(0), ty |-> Num(0)]
RenderedPages(n) == [i \in 1..n |-> RenderedPage(i)]

\* setupFonts(fonts); pdfmake.createPdf(docDefinition)
RenderStart ==
    /\ pc = "render"
    /\ pc' = "rendering"
    /\ SetupAndCreate
    /\ UNCHANGED <<genData, docVars, convVars>>
    /\ UNCHANGED imgVars
    /\ UNCHANGED auxVars

\* const pdfBuffer = await pdf.getBuffer()
RenderReturn ==
    /\ pc = "rendering"
    /\ pc' = "rendered"
    /\ GetBuffer
    /\ \E n \in 0..MaxPages : pdfBuffer' = RenderedPages(n)
    /\ UNCHANGED <<genData, pages, pdfOps, convVars>>
    /\ UNCHANGED imgVars
    /\ UNCHANGED auxVars

\* as contentShift, with the operands exchanged
contentShift_Reversed(target, canvas) == NSub(Num(canvas), target)

\* targetHeight - MAX_PAGE_HEIGHT
contentShift(target, canvas) == NSub(target, Num(canvas))

\* page.setSize(width, height); page.translateContent(x, y)
setSize(page, width, height) == [page EXCEPT !.width = width, !.height = height]
translateContent(page, x, y) ==
    [page EXCEPT !.tx = NAdd(@, x), !.ty = NAdd(@, y)]

\* as resizeFirstPage, without the test pages.length > 0
resizeFirstPage_Unguarded(doc, target) ==
    [pages |-> IF Len(doc.pages) > 0
               THEN [doc.pages EXCEPT ![1] =
                        translateContent(setSize(@, @.width, target), Num(0),
                                         contentShift(target, MAX_PAGE_HEIGHT))]
               ELSE doc.pages,
     ops |-> doc.ops \o <<"getSize", "setSize", "translateContent">>]

\* if (pages.length > 0) { getSize; setSize(width, targetHeight);
\*                         translateContent(0, targetHeight - MAX_PAGE_HEIGHT) }
resizeFirstPage(doc, target) ==
    IF Len(doc.pages) > 0
    THEN [pages |-> [doc.pages EXCEPT ![1] =
                        translateContent(setSize(@, @.width, target), Num(0),
                                         contentShift(target, MAX_PAGE_HEIGHT))],
          ops |-> doc.ops \o <<"getSize", "setSize", "translateContent">>]
    ELSE doc

\* as Resize, entered before the final render
Resize_BeforeRender ==
    /\ pc = "render"
    /\ pc' = "removing"
    /\ LET doc == resizeFirstPage([pages |-> RenderedPages(1),
                                   ops |-> <<"load", "getPages">>], targetHeight)
       IN  /\ pages' = doc.pages
           /\ pdfOps' = doc.ops
    /\ UNCHANGED <<genData, engVars, pdfBuffer, convVars>>
    /\ UNCHANGED imgVars
    /\ UNCHANGED auxVars

\* PDFDocument.load(pdfBuffer); getPages(); the resize of the first page
Resize ==
    /\ pc = "rendered"
    /\ pc' = "removing"
    /\ LET doc == resizeFirstPage([pages |-> pdfBuffer,
                                   ops |-> <<"load", "getPages">>], targetHeight)
       IN  /\ pages' = doc.pages
           /\ pdfOps' = doc.ops
    /\ UNCHANGED <<genData, engVars, pdfBuffer, convVars>>
    /\ UNCHANGED imgVars
    /\ UNCHANGED auxVars

\* as removePage, always taking the first page
removePage_First(ps, index) == SubSeq(ps, 2, Len(ps))

\* pdfDoc.removePage(index), index counted from 0
removePage(ps, index) == SubSeq(ps, 1, index) \o SubSeq(ps, index + 2, Len(ps))

\* one turn of while (pdfDoc.getPageCount() > 1) pdfDoc.removePage(1)
RemovePage ==
    /\ pc = "removing"
    /\ Len(pages) > 1
    /\ pages' = removePage(pages, 1)
    /\ pdfOps' = Append(pdfOps, "removePage")
    /\ UNCHANGED <<pc, genData, engVars, pdfBuffer, convVars>>
    /\ UNCHANGED imgVars
    /\ UNCHANGED auxVars

\* the loop is left; await pdfDoc.save(); return Buffer.from(resizedPdfBytes)
Save ==
    /\ pc = "removing"
    /\ ~(Len(pages) > 1)
    /\ pc' = "saved"
    /\ pdfOps' = Append(pdfOps, "save")
    /\ UNCHANGED <<genData, engVars, pdfBuffer, pages, convVars>>
    /\ UNCHANGED imgVars
    /\ UNCHANGED auxVars

\* convert: generatePDF fulfilled; await Bun.write(outputPath, pdfBuffer)
ConvertWrite ==
    /\ pc = "saved"
    /\ pc' = "written"
    /\ outputWritten' = TRUE
    /\ UNCHANGED <<genData, engVars, docVars, failure>>
    /\ UNCHANGED imgVars
    /\ UNCHANGED auxVars

\* convert: await generatePDF(...) throws, nothing catches it, convert rejects
ConvertReject ==
    /\ pc = "failed"
    /\ pc' = "rejected"
    /\ UNCHANGED <<genData, engVars, docVars, convVars>>
    /\ UNCHANGED imgVars
    /\ UNCHANGED auxVars

-----------------------------------------------------------------------------
(* Specifications of generatePDF.                                          *)

ImgIdle ==
    /\ buffer = <<>>
    /\ mimeType = "image/png"
    /\ ipc = "idle"
    /\ offset = 0
    /\ result = [kind |-> "pending"]
    /\ head = <<>>
    /\ segs = <<>>

\* loadImages and replaceFailedImages are not running
LoadIdle ==
    /\ images = <<>>
    /\ renderedContent = <<>>
    /\ loadResults = <<>>
    /\ completionOrder = <<>>
    /\ loadedImages = [data |-> EmptyMap, dimensions |-> EmptyMap]
    /\ processedContent = <<>>
    /\ lpc = "idle"

\* the command line is not running
CliIdle ==
    /\ args = <<>>
    /\ parsed = [unset |-> TRUE]
    /\ cpc = "idle"
    /\ exitCode = "none"
    /\ paper = [unset |-> TRUE]
    /\ cliMargins = [unset |-> TRUE]

\* nothing registered, rendered, loaded or written yet
RunStart ==
    /\ returned = <<>>
    /\ registrations = <<>>
    /\ engineLog = <<>>
    /\ pdfBuffer = <<>>
    /\ pages = <<>>
    /\ pdfOps = <<>>
    /\ failure = "none"
    /\ outputWritten = FALSE

UseFonts(system) ==
    /\ fonts = system.fonts
    /\ heap = system.heap

GenStart ==
    /\ pageMargins \in MARGIN_PRESETS
    /\ pc = "start"
    /\ maxY = Num(0)
    /\ pageCount = 0
    /\ measuredImageHeights = EmptyMap
    /\ observed = <<>>
    /\ renderedHeight = EmptyMap
    /\ imageHeights = EmptyMap
    /\ imageHeightCorrection = Num(0)
    /\ contentHeight = Num(0)
    /\ targetHeight = Num(0)
    /\ RunStart
    /\ ImgIdle
    /\ LoadIdle
    /\ CliIdle

InitGen ==
    /\ content \in Trees
    /\ imageDimensions \in DimensionMaps
    /\ UseFonts(FontsBuiltin)
    /\ GenStart

NextGen ==
    \/ MeasureStart
    \/ \E currentNode \in EngineNodes(content) : pageBreakBefore(currentNode)
    \/ MeasureReturn
    \/ CorrectExtent

SpecGen == InitGen /\ [][NextGen]_vars

\* The Image Extent Calculator over a wide range of pixel dimensions: a dry run
\* that observes nothing, then the correction.
FitWidths == {0, 1, 5, 300, 400, 500, 501, 1000, 4000}
FitHeights == {0, 1, 4, 100, 399, 400, 401, 500, 1000}

InitFit ==
    /\ content \in { t \in Trees : "img_0" \in ImagesOf(t) }
    /\ imageDimensions \in
           { [id \in {"img_0"} |-> [width |-> w, height |-> h]] :
                 w \in FitWidths, h \in FitHeights }
    /\ UseFonts(FontsBuiltin)
    /\ GenStart

NextFit ==
    \/ MeasureStart
    \/ MeasureReturn
    \/ CorrectExtent

SpecFit == InitFit /\ [][NextFit]_vars

\* The degenerate dry run: the engine hands the callback no image node, so no
\* image top is recorded, while images of several sizes are in the tree.
FallbackDimensionMaps ==
    DimensionMaps \cup
    { [img_0 |-> [width |-> 1000, height |-> 500], img_1 |-> GenDims["img_1"]],
      [img_0 |-> [width |-> 5, height |-> 1], img_1 |-> [width |-> 100, height |-> 50]] }

InitFallback ==
    /\ content \in Trees
    /\ imageDimensions \in FallbackDimensionMaps
    /\ UseFonts(FontsBuiltin)
    /\ GenStart

NextFallback ==
    \/ MeasureStart
    \/ \E currentNode \in { n \in EngineNodes(content) : "image" \notin DOMAIN n } :
          pageBreakBefore(currentNode)
    \/ MeasureReturn
    \/ CorrectExtent

SpecFallback == InitFallback /\ [][NextFallback]_vars

\* One whole conversion: generatePDF from the measurement pass to the saved
\* buffer, then convert's write; the document is empty or a paragraph and an
\* image, the font is a TTC font.
PdfTrees == { <<>>, <<TextNode, ImageNode("img_0")>> }

InitPdf ==
    /\ content \in PdfTrees
    /\ imageDimensions \in { d \in DimensionMaps : DOMAIN d \subseteq {"img_0"} }
    /\ UseFonts(FontsTTC)
    /\ GenStart

NextPdf ==
    \/ MeasureStart
    \/ \E currentNode \in EngineNodes(content) : pageBreakBefore(currentNode)
    \/ MeasureReturn
    \/ MeasureFail
    \/ CorrectExtent
    \/ RenderStart
    \/ RenderReturn
    \/ Resize
    \/ RemovePage
    \/ Save
    \/ ConvertWrite
    \/ ConvertReject

SpecPdf == InitPdf /\ [][NextPdf]_vars

\* The same conversion of a one-paragraph document under each font system.
InitFonts ==
    /\ content = <<TextNode>>
    /\ imageDimensions = EmptyMap
    /\ \E system \in FontSystems : UseFonts(system)
    /\ GenStart

SpecFonts == InitFonts /\ [][NextPdf]_vars

\* The same, with the steps of generatePDF's synchronous tail (the removal
\* loop and the save that follows it) always taken when they can be.
SpecLoop == SpecFonts /\ WF_vars(RemovePage) /\ WF_vars(Save)

-----------------------------------------------------------------------------
(* Image Header Parser: getImageDimensions, getPngDimensions,              *)
(* getJpegDimensions.  A buffer is a sequence of bytes; DataView reads     *)
(* outside the buffer throw a RangeError.                                  *)

\* DataView.getUintN(off) is in range
InRange(buf, off, n) == off >= 0 /\ off + n <= Len(buf)

\* big-endian reads, 0-based byte offsets; a uint32 is held as two 16-bit halves
getUint16(buf, off) == buf[off + 1] * 256 + buf[off + 2]
getUint32(buf, off) == [hi |-> getUint16(buf, off), lo |-> getUint16(buf, off + 2)]

\* the number a uint32 stands for (pixel dimensions below 2^31)
U32Num(u) == u.hi * 65536 + u.lo

PNG_SIGNATURE == [hi |-> 35152, lo |-> 20039]     \* 0x89504e47

Null == [kind |-> "none"]
RangeError == [kind |-> "throw"]
Dimensions(w, h) == [kind |-> "dims", width |-> w, height |-> h]

\* as getPngDimensions, comparing only the first two signature bytes
getPngDimensions_HalfSignature(buf) ==
    IF ~InRange(buf, 0, 4) THEN RangeError
    ELSE IF getUint32(buf, 0).hi # PNG_SIGNATURE.hi THEN Null
    ELSE IF ~InRange(buf, 16, 4) \/ ~InRange(buf, 20, 4) THEN RangeError
    ELSE Dimensions(U32Num(getUint32(buf, 16)), U32Num(getUint32(buf, 20)))

getPngDimensions(buf) ==
    IF ~InRange(buf, 0, 4) THEN RangeError
    ELSE IF getUint32(buf, 0) # PNG_SIGNATURE THEN Null
    ELSE IF ~InRange(buf, 16, 4) \/ ~InRange(buf, 20, 4) THEN RangeError
    ELSE Dimensions(U32Num(getUint32(buf, 16)), U32Num(getUint32(buf, 20)))

SOI == 65496      \* 0xffd8
EOI == 65497      \* 0xffd9

\* as IsSOF, taking every marker 0xffc0..0xffcf for a frame marker
IsSOF_WholeRange(marker) == marker >= 65472 /\ marker <= 65487

\* the Start-Of-Frame markers: 0xffc0-3, 0xffc5-7, 0xffc9-b, 0xffcd-f
IsSOF(marker) ==
    \/ (marker >= 65472 /\ marker <= 65475)
    \/ (marker >= 65477 /\ marker <= 65479)
    \/ (marker >= 65481 /\ marker <= 65483)
    \/ (marker >= 65485 /\ marker <= 65487)

\* the RST markers 0xffd0..0xffd7
IsRST(marker) == marker >= 65488 /\ marker <= 65495

ImgUnchanged == UNCHANGED <<buffer, mimeType, head, segs>>

ImgReturn(r) == result' = r /\ ipc' = "done" /\ offset' = offset

\* getImageDimensions up to the loop of getJpegDimensions
GetImageDimensions ==
    /\ ipc = "call"
    /\ IF mimeType = "image/png"
       THEN ImgReturn(getPngDimensions(buffer))
       ELSE IF mimeType = "image/jpeg"
       THEN IF ~InRange(buffer, 0, 2) THEN ImgReturn(RangeError)
            ELSE IF getUint16(buffer, 0) # SOI THEN ImgReturn(Null)
            ELSE offset' = 2 /\ ipc' = "scan" /\ result' = result
       ELSE ImgReturn(Null)
    /\ ImgUnchanged
    /\ UNCHANGED genVars
    /\ UNCHANGED runVars
    /\ UNCHANGED auxVars

\* one iteration of while (offset < buffer.byteLength), or the exit from the loop
JpegScan ==
    /\ ipc = "scan"
    /\ IF ~(offset < Len(buffer)) THEN ImgReturn(Null)
       ELSE IF ~InRange(buffer, offset, 2) THEN ImgReturn(RangeError)
       ELSE
           LET marker == getUint16(buffer, offset)
               off == offset + 2
           IN  IF IsSOF(marker)
               THEN IF ~InRange(buffer, off + 3, 2) \/ ~InRange(buffer, off + 5, 2)
                    THEN ImgReturn(RangeError)
                    ELSE ImgReturn(Dimensions(getUint16(buffer, off + 5),
                                              getUint16(buffer, off + 3)))
               ELSE IF marker = EOI THEN ImgReturn(Null)
               ELSE IF marker = SOI \/ IsRST(marker)
               THEN offset' = off /\ ipc' = "scan" /\ result' = result
               ELSE IF ~InRange(buffer, off, 2) THEN ImgReturn(RangeError)
               ELSE /\ offset' = off + getUint16(buffer, off)
                    /\ ipc' = "scan"
                    /\ result' = result
    /\ ImgUnchanged
    /\ UNCHANGED genVars
    /\ UNCHANGED runVars
    /\ UNCHANGED auxVars

-----------------------------------------------------------------------------
(* Input buffers of the parser.  JPEG streams are built from a 2-byte head *)
(* and a sequence of segments, and cut at any length; PNG buffers from a   *)
(* signature, the IHDR chunk header and the width and height fields.       *)

\* a marker without payload
Bare(m) == [m |-> m, body |-> <<>>, kind |-> "bare", width |-> 0, height |-> 0]
\* a marker, its length (which counts its own two bytes) and its payload
Seg(m, payload) ==
    [m |-> m, body |-> <<0, Len(payload) + 2>> \o payload, kind |-> "len",
     width |-> 0, height |-> 0]
\* a frame segment: length 17, precision 8, height, width, 3 components
Sof(m, h, w) ==
    [m |-> m, body |-> <<0, 17, 8, h \div 256, h % 256, w \div 256, w % 256, 3>>,
     kind |-> "sof", width |-> w, height |-> h]
\* a segment whose length field is 0
ZeroLen(m) == [m |-> m, body |-> <<0, 0>>, kind |-> "zero", width |-> 0, height |-> 0]

Segments ==
    { Bare(215),                                     \* RST7
      Bare(216),                                     \* SOI
      Bare(217),                                     \* EOI
      Seg(224, <<>>),                                \* APP0, empty
      Seg(225, <<255, 192, 0, 17, 8, 0, 1, 0, 1>>),  \* APP1 holding the bytes of a frame
      Seg(196, <<1>>),                               \* DHT 0xffc4
      Seg(200, <<>>),                                \* JPG 0xffc8
      Sof(192, 320, 400),                            \* SOF0
      Sof(207, 1, 2),                                \* SOF15
      ZeroLen(224) }

MaxSegs == 2       \* segments per stream

Heads == { <<255, 216>>, <<255, 217>> }

Encode(seg) == <<255, seg.m>> \o seg.body

RECURSIVE Stream(_)
Stream(ss) == IF ss = <<>> THEN <<>> ELSE Encode(Head(ss)) \o Stream(Tail(ss))

SegSeqs == UNION { [1..n -> Segments] : n \in 0..MaxSegs }

PngSignatures ==
    { <<137, 80, 78, 71>>,
      <<136, 80, 78, 71>>, <<137, 81, 78, 71>>, <<137, 80, 79, 71>>, <<137, 80, 78, 70>> }
PngIhdr == <<13, 10, 26, 10, 0, 0, 0, 13, 73, 72, 68, 82>>
PngWidths == { <<0, 0, 3, 32>>, <<0, 0, 0, 0>>, <<1, 2, 3, 4>> }
PngHeights == { <<0, 0, 2, 88>>, <<0, 0, 0, 0>>, <<0, 1, 0, 0>> }

MimeTypes == { "image/png", "image/jpeg", "image/gif" }

Prefixes(full) == { SubSeq(full, 1, n) : n \in 0..Len(full) }

GenIdle ==
    /\ content = <<>>
    /\ imageDimensions = EmptyMap
    /\ pageMargins = <<40, 40, 40, 40>>
    /\ pc = "idle"
    /\ maxY = Num(0)
    /\ pageCount = 0
    /\ measuredImageHeights = EmptyMap
    /\ observed = <<>>
    /\ renderedHeight = EmptyMap
    /\ imageHeights = EmptyMap
    /\ imageHeightCorrection = Num(0)
    /\ contentHeight = Num(0)
    /\ targetHeight = Num(0)
    /\ UseFonts(FontsBuiltin)
    /\ RunStart

InitImg ==
    /\ \/ /\ head \in Heads
          /\ segs \in SegSeqs
          /\ buffer \in Prefixes(head \o Stream(segs))
       \/ /\ head = <<>>
          /\ segs = <<>>
          /\ \E sig \in PngSignatures, w \in PngWidths, h \in PngHeights :
                buffer \in Prefixes(sig \o PngIhdr \o w \o h \o <<0>>)
    /\ mimeType \in MimeTypes
    /\ ipc = "call"
    /\ offset = 0
    /\ result = [kind |-> "pending"]
    /\ GenIdle
    /\ LoadIdle
    /\ CliIdle

NextImg ==
    \/ GetImageDimensions
    \/ JpegScan

SpecImg == InitImg /\ [][NextImg]_vars

-----------------------------------------------------------------------------
(* Image loading and placeholder substitution: loadImage, loadImages       *)
(* (loader.ts) and replaceFailedImages (converter.ts).                     *)

MaxImages == 2     \* images in the document

\* getJpegDimensions from the loop on, as one function of the buffer
RECURSIVE getJpegDimensionsFrom(_, _)
getJpegDimensionsFrom(buf, at) ==
    IF ~(at < Len(buf)) THEN Null
    ELSE IF ~InRange(buf, at, 2) THEN RangeError
    ELSE
        LET marker == getUint16(buf, at)
            off == at + 2
        IN  IF IsSOF(marker)
            THEN IF ~InRange(buf, off + 3, 2) \/ ~InRange(buf, off + 5, 2)
                 THEN RangeError
                 ELSE Dimensions(getUint16(buf, off + 5), getUint16(buf, off + 3))
            ELSE IF marker = EOI THEN Null
            ELSE IF marker = SOI \/ IsRST(marker) THEN getJpegDimensionsFrom(buf, off)
            ELSE IF ~InRange(buf, off, 2) THEN RangeError
            ELSE getJpegDimensionsFrom(buf, off + getUint16(buf, off))

getJpegDimensions(buf) ==
    IF ~InRange(buf, 0, 2) THEN RangeError
    ELSE IF getUint16(buf, 0) # SOI THEN Null
    ELSE getJpegDimensionsFrom(buf, 2)

getImageDimensions(buf, mime) ==
    IF mime = "image/png" THEN getPngDimensions(buf)
    ELSE IF mime = "image/jpeg" THEN getJpegDimensions(buf)
    ELSE Null

\* MIME_TYPES[ext] ?? null, for the extension of the lower-cased path
MIME_TYPES == [jpg |-> "image/jpeg", jpeg |-> "image/jpeg", png |-> "image/png"]
getMimeType(ext) == IF ext \in DOMAIN MIME_TYPES THEN MIME_TYPES[ext] ELSE "null"

\* loadImage resolved with null
NoImage == [loaded |-> FALSE]

\* { id, data: dataUrl, dimensions: dimensions ?? undefined }; the data URL is
\* held as its MIME type and the bytes it encodes
ImageData(id, mime, bytes, dims) ==
    LET base == [loaded |-> TRUE, id |-> id, data |-> [mime |-> mime, bytes |-> bytes]]
    IN  IF dims = Null THEN base
        ELSE base @@ [dimensions |-> [width |-> dims.width, height |-> dims.height]]

\* the body of both try blocks after the bytes are read: a parser exception is
\* caught and the load resolves with null
readImage(id, mime, bytes) ==
    LET dims == getImageDimensions(bytes, mime)
    IN  IF dims = RangeError THEN NoImage ELSE ImageData(id, mime, bytes, dims)

loadLocalImage(info) ==
    LET mime == getMimeType(info.ext)
    IN  IF mime = "null" THEN NoImage
        ELSE IF ~info.exists THEN NoImage
        ELSE readImage(info.id, mime, info.bytes)

\* contentType.startsWith('image/jpeg') / ('image/png'); contentType.split(';')[0]
loadRemoteImage(info) ==
    IF info.fetch = "throws" THEN NoImage
    ELSE IF info.fetch # "ok" THEN NoImage
    ELSE IF info.contentType \notin {"image/jpeg", "image/png"} THEN NoImage
    ELSE readImage(info.id, info.contentType, info.bytes)

loadImage(info) ==
    IF info.remote THEN loadRemoteImage(info) ELSE loadLocalImage(info)

\* as collectLoaded, giving up at the first load that resolved with null
RECURSIVE collectLoaded_StopAtFailure(_, _)
collectLoaded_StopAtFailure(results, acc) ==
    IF results = <<>> THEN acc
    ELSE LET img == Head(results)
             data == IF img.loaded THEN Put(acc.data, img.id, img.data) ELSE acc.data
             dimensions == IF img.loaded /\ "dimensions" \in DOMAIN img
                           THEN Put(acc.dimensions, img.id, img.dimensions)
                           ELSE acc.dimensions
         IN  IF ~img.loaded THEN acc
             ELSE collectLoaded_StopAtFailure(Tail(results),
                                              [data |-> data, dimensions |-> dimensions])

\* for (const img of loadedImages) { if (img) { data[img.id] = img.data;
\*   if (img.dimensions) dimensions[img.id] = img.dimensions } }
RECURSIVE collectLoaded(_, _)
collectLoaded(results, acc) ==
    IF results = <<>> THEN acc
    ELSE LET img == Head(results)
             data == IF img.loaded THEN Put(acc.data, img.id, img.data) ELSE acc.data
             dimensions == IF img.loaded /\ "dimensions" \in DOMAIN img
                           THEN Put(acc.dimensions, img.id, img.dimensions)
                           ELSE acc.dimensions
         IN  collectLoaded(Tail(results), [data |-> data, dimensions |-> dimensions])

Pending == [loaded |-> FALSE, pending |-> TRUE]

\* one of the loads started by images.map(loadImage) settles
LoadSettle(i) ==
    /\ lpc = "loading"
    /\ loadResults[i] = Pending
    /\ loadResults' = [loadResults EXCEPT ![i] = loadImage(images[i])]
    /\ completionOrder' = Append(completionOrder, i)
    /\ UNCHANGED <<images, renderedContent, loadedImages, processedContent, lpc>>
    /\ UNCHANGED <<genVars, imgVars, runVars, cliVars>>

\* Promise.all is fulfilled; the loop over its results; return { data, dimensions }
LoadImagesReturn ==
    /\ lpc = "loading"
    /\ \A i \in 1..Len(loadResults) : loadResults[i] # Pending
    /\ loadedImages' = collectLoaded(loadResults,
                                     [data |-> EmptyMap, dimensions |-> EmptyMap])
    /\ lpc' = "loaded"
    /\ UNCHANGED <<images, renderedContent, loadResults, completionOrder,
                   processedContent>>
    /\ UNCHANGED <<genVars, imgVars, runVars, cliVars>>

\* the text node put in place of an image that did not load
Placeholder ==
    [text |-> "[Image not found]", italics |-> TRUE, color |-> "#999999",
     margin |-> ImageMargin]

\* as replaceFailedImages, without the descent into stack and columns
RECURSIVE replaceFailedImages_TopLevel(_, _)
replaceFailedImages_TopLevel(items, loaded) ==
    IF items = <<>> THEN <<>>
    ELSE LET item == Head(items)
             out == IF "image" \in DOMAIN item /\ item.image \notin DOMAIN loaded
                    THEN Placeholder ELSE item
         IN  <<out>> \o replaceFailedImages_TopLevel(Tail(items), loaded)

RECURSIVE replaceFailedImages(_, _)
replaceFailedImages(items, loaded) ==
    IF items = <<>> THEN <<>>
    ELSE LET item == Head(items)
             out == IF "image" \in DOMAIN item
                    THEN IF item.image \notin DOMAIN loaded THEN Placeholder ELSE item
                    ELSE IF "stack" \in DOMAIN item
                    THEN [item EXCEPT !.stack = replaceFailedImages(@, loaded)]
                    ELSE IF "columns" \in DOMAIN item
                    THEN [item EXCEPT !.columns = replaceFailedImages(@, loaded)]
                    ELSE item
         IN  <<out>> \o replaceFailedImages(Tail(items), loaded)

\* const processedContent = replaceFailedImages(content, loadedImages.data, ...)
ReplaceFailed ==
    /\ lpc = "loaded"
    /\ processedContent' = replaceFailedImages(renderedContent, loadedImages.data)
    /\ lpc' = "replaced"
    /\ UNCHANGED <<images, renderedContent, loadResults, completionOrder, loadedImages>>
    /\ UNCHANGED <<genVars, imgVars, runVars, cliVars>>

\* what the href of an image leads to: a local path with its extension, whether
\* the file exists and its bytes, or a URL with the outcome of the fetch
PngFile(w, h) == <<137, 80, 78, 71>> \o PngIhdr \o w \o h \o <<0>>
JpegFile(h, w) == <<255, 216>> \o Encode(Seg(224, <<>>)) \o Encode(Sof(192, h, w))
Local(ext, exists, bytes) ==
    [remote |-> FALSE, ext |-> ext, exists |-> exists, bytes |-> bytes]
Remote(fetch, contentType, bytes) ==
    [remote |-> TRUE, fetch |-> fetch, contentType |-> contentType, bytes |-> bytes]
Hrefs ==
    { Local("png", TRUE, PngFile(<<0, 0, 3, 32>>, <<0, 0, 2, 88>>)),  \* 800 x 600
      Local("png", TRUE, PngFile(<<0, 0, 3, 32>>, <<0, 0, 0, 0>>)),   \* height 0
      Local("png", TRUE, <<137, 80, 78, 71, 13, 10>>),          \* cut short
      Local("png", TRUE, <<71, 73, 70, 56, 57, 97>>),           \* not a PNG
      Local("png", FALSE, <<>>),                                \* no such file
      Local("gif", TRUE, <<71, 73, 70, 56, 57, 97>>),           \* unsupported
      Local("jpg", TRUE, JpegFile(0, 320)),                     \* frame height 0
      Remote("ok", "image/jpeg", JpegFile(240, 320)),
      Remote("status 404", "text/html", <<>>),
      Remote("throws", "", <<>>) }

\* renderImage: imageId = `img_${context.images.length}`
ImageIdAt == <<"img_0", "img_1", "img_2", "img_3">>

\* renderBlockquote: a stack holding columns holding the stack of the content
Blockquote(inner) ==
    [stack |-> <<[columns |-> <<[canvas |-> "rect"], [stack |-> inner]>>]>>]

\* a document whose n images are img_0 .. img_(n-1): the first in a paragraph of
\* its own, the others inside nested blockquotes
RECURSIVE QuotedImages(_, _)
QuotedImages(k, n) ==
    IF k > n THEN <<TextNode>>
    ELSE <<ImageNode(ImageIdAt[k]), Blockquote(QuotedImages(k + 1, n))>>
DocumentWith(n) ==
    IF n = 0 THEN <<TextNode>>
    ELSE <<TextNode, ImageNode(ImageIdAt[1])>> \o
         (IF n = 1 THEN <<>> ELSE <<Blockquote(QuotedImages(2, n))>>)

InitLoad ==
    /\ \E n \in 0..MaxImages :
          /\ \E hrefs \in [1..n -> Hrefs] :
                images = [i \in 1..n |-> [id |-> ImageIdAt[i]] @@ hrefs[i]]
          /\ renderedContent = DocumentWith(n)
          /\ loadResults = [i \in 1..n |-> Pending]
    /\ completionOrder = <<>>
    /\ loadedImages = [data |-> EmptyMap, dimensions |-> EmptyMap]
    /\ processedContent = <<>>
    /\ lpc = "loading"
    /\ GenIdle
    /\ ImgIdle
    /\ CliIdle

NextLoad ==
    \/ \E i \in 1..Len(loadResults) : LoadSettle(i)
    \/ LoadImagesReturn
    \/ ReplaceFailed

SpecLoad == InitLoad /\ [][NextLoad]_vars

-----------------------------------------------------------------------------
(* The command line (converter.ts parseArgs and main) and the paper and    *)
(* margin tables (config/paper.ts, config/margins.ts).  A string is a TLA+ *)
(* string; an array is a record with the field items; a missing optional   *)
(* property is a missing record field.                                     *)

MaxArgs == 3

\* const mm = (v) => Math.round(v * 2.83465), for the widths of the table
mm(v) == (v * 566930 + 100000) \div 200000

PAPER_SIZES ==
    [A1 |-> [width |-> mm(594), name |-> "A1", mmWidth |-> 594],
     A2 |-> [width |-> mm(420), name |-> "A2", mmWidth |-> 420],
     A3 |-> [width |-> mm(297), name |-> "A3", mmWidth |-> 297],
     A4 |-> [width |-> mm(210), name |-> "A4", mmWidth |-> 210],
     A5 |-> [width |-> mm(148), name |-> "A5", mmWidth |-> 148],
     B1 |-> [width |-> mm(707), name |-> "B1", mmWidth |-> 707],
     B2 |-> [width |-> mm(500), name |-> "B2", mmWidth |-> 500],
     B3 |-> [width |-> mm(353), name |-> "B3", mmWidth |-> 353],
     B4 |-> [width |-> mm(250), name |-> "B4", mmWidth |-> 250],
     B5 |-> [width |-> mm(176), name |-> "B5", mmWidth |-> 176]]

MARGIN_PRESETS_BY_NAME ==
    [default |-> [items |-> <<40, 40, 40, 40>>],
     dense |-> [items |-> <<20, 20, 20, 20>>]]

\* the properties both tables inherit: they are object literals, so their
\* prototype is Object.prototype
ObjectPrototype ==
    { "constructor", "__proto__", "hasOwnProperty", "isPrototypeOf",
      "propertyIsEnumerable", "toLocaleString", "toString", "valueOf",
      "__defineGetter__", "__defineSetter__", "__lookupGetter__",
      "__lookupSetter__" }

\* key in table: own and inherited properties alike
HasProperty(table, key) == key \in DOMAIN table \cup ObjectPrototype

\* table[key]: the own value, else the inherited one, else undefined
Lookup(table, key) ==
    IF key \in DOMAIN table THEN table[key]
    ELSE IF key \in ObjectPrototype THEN [inherited |-> key]
    ELSE [undefined |-> TRUE]

\* String.prototype.toUpperCase / toLowerCase on the ASCII range
RECURSIVE toUpperCase(_)
toUpperCase(s) ==
    IF Len(s) = 0 THEN ""
    ELSE LET c == SubSeq(s, 1, 1)
             lower == "abcdefghijklmnopqrstuvwxyz"
             upper == "ABCDEFGHIJKLMNOPQRSTUVWXYZ"
             at == { i \in 1..26 : SubSeq(lower, i, i) = c }
         IN  (IF at = {} THEN c
              ELSE LET i == CHOOSE j \in at : TRUE IN SubSeq(upper, i, i))
             \o toUpperCase(SubSeq(s, 2, Len(s)))

RECURSIVE toLowerCase(_)
toLowerCase(s) ==
    IF Len(s) = 0 THEN ""
    ELSE LET c == SubSeq(s, 1, 1)
             lower == "abcdefghijklmnopqrstuvwxyz"
             upper == "ABCDEFGHIJKLMNOPQRSTUVWXYZ"
             at == { i \in 1..26 : SubSeq(upper, i, i) = c }
         IN  (IF at = {} THEN c
              ELSE LET i == CHOOSE j \in at : TRUE IN SubSeq(lower, i, i))
             \o toLowerCase(SubSeq(s, 2, Len(s)))

\* return value.toUpperCase() in PAPER_SIZES
isPaperSize(value) == HasProperty(PAPER_SIZES, toUpperCase(value))

\* the lookup without the normalisation
getPaperSize_Exact(value) ==
    LET found == Lookup(PAPER_SIZES, value)
    IN  IF "undefined" \in DOMAIN found THEN PAPER_SIZES["A4"] ELSE found

\* return PAPER_SIZES[value.toUpperCase()] ?? PAPER_SIZES['A4']
getPaperSize(value) ==
    LET found == Lookup(PAPER_SIZES, toUpperCase(value))
    IN  IF "undefined" \in DOMAIN found THEN PAPER_SIZES["A4"] ELSE found

\* return value in MARGIN_PRESETS
isMarginPreset(value) == HasProperty(MARGIN_PRESETS_BY_NAME, value)

\* return MARGIN_PRESETS[preset]
getPageMargins(preset) == Lookup(MARGIN_PRESETS_BY_NAME, preset)

\* parseArgs: the while loop from index i (1-based here) with the result so
\* far; an error returns at once
RECURSIVE parseArgsFrom(_, _, _)
parseArgsFrom(a, i, res) ==
    IF i > Len(a) THEN res
    ELSE LET arg == a[i]
             missing == i + 1 > Len(a)
             next == a[i + 1]
         IN
         IF arg \in {"-h", "--help"}
         THEN parseArgsFrom(a, i + 1, [res EXCEPT !.help = TRUE])
         ELSE IF arg \in {"-v", "--version"}
         THEN parseArgsFrom(a, i + 1, [res EXCEPT !.version = TRUE])
         ELSE IF arg \in {"-o", "--output"}
         THEN IF missing
              THEN [error |-> "Missing output path"] @@ res
              ELSE parseArgsFrom(a, i + 2, [output |-> next] @@ res)
         ELSE IF arg \in {"-p", "--paper"}
         THEN IF missing
              THEN [error |-> "Missing paper size"] @@ res
              ELSE IF ~isPaperSize(toUpperCase(next))
              THEN [error |-> "Invalid paper size"] @@ res
              ELSE parseArgsFrom(a, i + 2, [res EXCEPT !.paper = next])
         ELSE IF arg \in {"-m", "--margin"}
         THEN IF missing
              THEN [error |-> "Missing margin preset"] @@ res
              ELSE IF ~isMarginPreset(toLowerCase(next))
              THEN [error |-> "Invalid margin preset"] @@ res
              ELSE parseArgsFrom(a, i + 2,
                                 [res EXCEPT !.margin = toLowerCase(next)])
         ELSE IF Len(arg) > 0 /\ SubSeq(arg, 1, 1) = "-"
         THEN [error |-> "Unknown option"] @@ res
         ELSE IF "input" \notin DOMAIN res \/ Len(res.input) = 0
         THEN parseArgsFrom(a, i + 1, [input |-> arg] @@ res)
         ELSE [error |-> "Unexpected argument"] @@ res

parseArgs(a) ==
    parseArgsFrom(a, 1, [paper |-> "A4", margin |-> "default",
                         help |-> FALSE, version |-> FALSE])

\* main up to the call of convert: a parse error exits with 1 before anything
\* else, help and version exit with 0, a missing input or input file with 1
Main ==
    /\ cpc = "start"
    /\ parsed' = parseArgs(args)
    /\ IF "error" \in DOMAIN parsed'
       THEN cpc' = "exited" /\ exitCode' = "1"
       ELSE IF parsed'.help \/ parsed'.version
       THEN cpc' = "exited" /\ exitCode' = "0"
       ELSE IF "input" \notin DOMAIN parsed' \/ Len(parsed'.input) = 0
       THEN cpc' = "exited" /\ exitCode' = "1"
       ELSE \E exists \in BOOLEAN :
               IF exists
               THEN cpc' = "convert" /\ exitCode' = exitCode
               ELSE cpc' = "exited" /\ exitCode' = "1"
    /\ UNCHANGED <<args, paper, cliMargins>>
    /\ UNCHANGED <<genVars, imgVars, runVars, loadVars>>

\* convert resolving its options: getPaperSize(options.paperSize ?? 'A4')
\* and getPageMargins(options.marginPreset ?? 'default'); main always passes
\* both, and what they return goes to generatePDF
ConvertOptions ==
    /\ cpc = "convert"
    /\ paper' = getPaperSize(parsed.paper)
    /\ cliMargins' = getPageMargins(parsed.margin)
    /\ cpc' = "generate"
    /\ UNCHANGED <<args, parsed, exitCode>>
    /\ UNCHANGED <<genVars, imgVars, runVars, loadVars>>

\* await convert(...) completes, or throws and main exits with 1
ConvertSettle ==
    /\ cpc = "generate"
    /\ \E thrown \in BOOLEAN :
          /\ cpc' = IF thrown THEN "exited" ELSE "done"
          /\ exitCode' = IF thrown THEN "1" ELSE "0"
    /\ UNCHANGED <<args, parsed, paper, cliMargins>>
    /\ UNCHANGED <<genVars, imgVars, runVars, loadVars>>

\* process.argv.slice(2): up to MaxArgs words
Tokens ==
    { "doc.md", "-p", "--paper", "-m", "--margin", "-h", "-o",
      "a3", "B5", "A6", "Dense", "default", "constructor", "__proto__" }

InitCli ==
    /\ \E n \in 0..MaxArgs : args \in [1..n -> Tokens]
    /\ parsed = [unset |-> TRUE]
    /\ cpc = "start"
    /\ exitCode = "none"
    /\ paper = [unset |-> TRUE]
    /\ cliMargins = [unset |-> TRUE]
    /\ GenIdle
    /\ ImgIdle
    /\ LoadIdle

NextCli == Main \/ ConvertOptions \/ ConvertSettle

SpecCli == InitCli /\ [][NextCli]_vars

-----------------------------------------------------------------------------
(* Properties of the Extent Corrector and the Measurement Driver,          *)
(* checked under SpecGen.                                                  *)

Corrected == pc = "render"

NGe(a, b) == ~NLt(a, b)

\* a = b + i for an integer i, by cross-multiplication
EqualsPlus(a, b, i) == a.k = "fin" /\ b.k = "fin" /\ a.n * b.d = (b.n + i * b.d) * a.d

\* C1: a content tree with no image node gets correction 0, a corrected extent
\* equal to the measured maxY, and a target height of
\* topMargin + maxY + bottomMargin + 25.
C1_NoImages ==
    (Corrected /\ ImagesOf(content) = {}) =>
        /\ contentHeight = maxY
        /\ imageHeightCorrection = Num(0)
        /\ EqualsPlus(targetHeight, maxY, pageMargins[2] + pageMargins[4] + 25)

C1_Witness ==
    /\ Corrected
    /\ ImagesOf(content) = {}
    /\ NGt(maxY, Num(0))
    /\ DOMAIN imageDimensions # {}

\* C2: whenever the measurement recorded an image top offset, the correction is
\* not negative and the corrected extent is at least maxY.
C2_NeverUnderCount ==
    (Corrected /\ DOMAIN measuredImageHeights # {}) =>
        /\ NGe(imageHeightCorrection, Num(0))
        /\ NGe(contentHeight, maxY)

C2_Witness ==
    /\ Corrected
    /\ DOMAIN measuredImageHeights # {}
    /\ NGt(contentHeight, maxY)

\* the images with both a recorded top offset and a computed footprint, and their
\* expected bottoms
WithBoth == DOMAIN measuredImageHeights \cap DOMAIN imageHeights
ExpectedBottoms == { NAdd(measuredImageHeights[id], imageHeights[id]) : id \in WithBoth }

\* C3: with a recorded top offset and an image footprint, the corrected extent is
\* the maximum of maxY and the expected bottoms topOffset + footprint of the images
\* that have both (maxY itself when no image has both); the correction is that
\* maximum minus maxY.
C3_MaxOfExpectedBottoms ==
    (Corrected /\ DOMAIN measuredImageHeights # {} /\ DOMAIN imageHeights # {}) =>
        /\ NGe(contentHeight, maxY)
        /\ \A b \in ExpectedBottoms : NGe(contentHeight, b)
        /\ contentHeight = maxY \/ contentHeight \in ExpectedBottoms
        /\ imageHeightCorrection = NSub(contentHeight, maxY)

C3_Witness ==
    /\ Corrected
    /\ \E b \in ExpectedBottoms : NGt(b, maxY)
    /\ DOMAIN measuredImageHeights \ DOMAIN imageHeights # {}
    /\ NGt(maxY, Num(0))

\* the bottom edge of an observed node in the page-folded coordinate space, a
\* missing height counting as 0
FoldedBottom(node) ==
    NAdd(Num((node.startPosition.pageNumber - 1)
             * (MAX_PAGE_HEIGHT - pageMargins[2] - pageMargins[4])),
         NAdd(node.startPosition.top,
              IF "height" \in DOMAIN node THEN node.height ELSE Num(0)))

ObservedNodes == { observed[i] : i \in 1..Len(observed) }

IsMaxOfZeroAnd(x, S) ==
    /\ NGe(x, Num(0))
    /\ \A b \in S : NGe(x, b)
    /\ x = Num(0) \/ x \in S

\* C10 as stated: maxY is the maximum of 0 and the bottom edges of the observed
\* nodes that carry both a start position and a height.
C10_Original ==
    IsMaxOfZeroAnd(maxY,
        { FoldedBottom(n) : n \in { m \in ObservedNodes :
              "startPosition" \in DOMAIN m /\ "height" \in DOMAIN m } })

\* C10 amended: maxY is the maximum of 0 and the bottom edges
\* (pageNumber-1) * (canvasHeight - topMargin - bottomMargin) + top + height of
\* the observed nodes that carry a start position, a missing height counting as
\* 0; it is 0 when nothing was observed and no callback decreases it.
C10_MaxExtent ==
    /\ [](IsMaxOfZeroAnd(maxY,
            { FoldedBottom(n) : n \in { m \in ObservedNodes :
                  "startPosition" \in DOMAIN m } }))
    /\ [](observed = <<>> => maxY = Num(0))
    /\ [][NGe(maxY', maxY)]_vars

C10_Witness ==
    /\ Len(observed) = 2
    /\ \E i, j \in 1..2 :
          /\ "startPosition" \in DOMAIN observed[i]
          /\ "height" \notin DOMAIN observed[i]
          /\ maxY = FoldedBottom(observed[i])
          /\ "startPosition" \in DOMAIN observed[j]
          /\ observed[j].startPosition.pageNumber = 1
          /\ "height" \in DOMAIN observed[j]

\* C11: during the measurement pass the observation callback declines to force
\* a page break on every invocation: whatever node it is handed and whatever
\* it has accumulated, pageBreakBefore returns false.
C11_NeverBreaks ==
    /\ Len(returned) = Len(observed)
    /\ \A i \in 1..Len(returned) : returned[i] = FALSE
    /\ \A node \in EngineNodes(content) : pageBreakBeforeReturn(node) = FALSE

C11_Witness ==
    /\ pc = "measured"
    /\ Len(returned) = 2
    /\ \E i \in 1..2 :
          /\ "image" \in DOMAIN observed[i]
          /\ HasStart(observed[i])
          /\ observed[i].startPosition.pageNumber = 2
    /\ NGt(maxY, Num(MAX_PAGE_HEIGHT))

\* the callbacks that carried image id, in order of invocation
CallbacksFor(id) ==
    { i \in 1..Len(observed) : "image" \in DOMAIN observed[i] /\ observed[i].image = id }
LastCallbackFor(id) ==
    observed[CHOOSE i \in CallbacksFor(id) : \A j \in CallbacksFor(id) : j <= i]
ObservedImages ==
    { observed[i].image : i \in { j \in 1..Len(observed) : "image" \in DOMAIN observed[j] } }

\* C12: after any sequence of callbacks the recorded image tops hold exactly the
\* image ids observed at least once, each mapped to the top offset reported by
\* the last callback for that id (0 when that callback carried no start
\* position); earlier values are overwritten.
C12_LastTopWins ==
    /\ DOMAIN measuredImageHeights = ObservedImages
    /\ \A id \in ObservedImages :
          LET last == LastCallbackFor(id)
          IN  measuredImageHeights[id] =
                  IF "startPosition" \in DOMAIN last
                  THEN last.startPosition.top ELSE Num(0)

C12_Witness ==
    /\ Len(observed) = 2
    /\ "image" \in DOMAIN observed[1]
    /\ "image" \in DOMAIN observed[2]
    /\ observed[1].image = observed[2].image
    /\ "startPosition" \in DOMAIN observed[1]
    /\ "startPosition" \in DOMAIN observed[2]
    /\ observed[1].startPosition.top # observed[2].startPosition.top
    /\ measuredImageHeights[observed[2].image] = observed[2].startPosition.top
    /\ ImagesOf(content) \ ObservedImages # {}

\* the images of the tree whose bytes gave no dimensions
Unparsed == ImagesOf(content) \ DOMAIN imageDimensions

\* the footprint the calculator gives an image with dimensions
FootprintOf(id) ==
    NAdd(calculateImageHeight(imageDimensions[id]),
         Num(ImageMarginTop + ImageMarginBottom))

\* C20: an image without parsed dimensions does not stop the correction and
\* has no footprint: it is absent from the footprints and from their total,
\* its recorded top never exceeds maxY, the corrected extent is what the
\* maximum over the other recorded images gives, and when no other image was
\* recorded the correction is 0.
C20_ZeroFootprint ==
    Corrected =>
        LET withDims == ImagesOf(content) \cap DOMAIN imageDimensions
            total == SumOver(imageHeights, DOMAIN imageHeights)
            others == DOMAIN measuredImageHeights \ Unparsed
        IN  /\ DOMAIN imageHeights = withDims
            /\ total = SumOver([id \in withDims |-> FootprintOf(id)], withDims)
            /\ \A id \in Unparsed \cap DOMAIN measuredImageHeights :
                  NGe(maxY, measuredImageHeights[id])
            /\ (DOMAIN measuredImageHeights # {} /\ NGt(total, Num(0))) =>
                  contentHeight =
                      MathMax(maxY, maxExpectedBottom(measuredImageHeights,
                                                      imageHeights, others))
            /\ (DOMAIN measuredImageHeights # {} /\ others = {}) =>
                  /\ imageHeightCorrection = Num(0)
                  /\ contentHeight = maxY

C20_Witness ==
    /\ Corrected
    /\ \E id \in Unparsed \cap DOMAIN measuredImageHeights :
          NGt(measuredImageHeights[id], Num(0))
    /\ DOMAIN measuredImageHeights \ Unparsed # {}
    /\ NGt(imageHeightCorrection, Num(0))

\* C22: when some image of the tree has a footprint and the measurement
\* recorded no image top at all, the correction is 0.22 times the sum of the
\* footprints of the distinct images with dimensions, the corrected extent is
\* maxY plus the correction, and the correction is not negative and does not
\* decrease when the total footprint grows.
C22_Fallback ==
    (Corrected /\ DOMAIN imageHeights # {} /\ DOMAIN measuredImageHeights = {}) =>
        LET withDims == ImagesOf(content) \cap DOMAIN imageDimensions
            total == SumOver([id \in withDims |-> FootprintOf(id)], withDims)
        IN  /\ imageHeightCorrection.k = "fin"
            /\ imageHeightCorrection.n * total.d * 100
                   = 22 * total.n * imageHeightCorrection.d
            /\ contentHeight = NAdd(maxY, imageHeightCorrection)
            /\ NGe(imageHeightCorrection, Num(0))
            /\ \A other \in FallbackDimensionMaps :
                  LET heights == calculateImageHeights(content, other)
                  IN  NGe(SumOver(heights, DOMAIN heights), total) =>
                          NGe(correctionFor(heights, EmptyMap, maxY),
                              imageHeightCorrection)

C22_Witness ==
    /\ Corrected
    /\ Cardinality(DOMAIN imageHeights) = 2
    /\ DOMAIN measuredImageHeights = {}
    /\ NGt(maxY, Num(0))
    /\ NGt(imageHeightCorrection, Num(0))
    /\ NGt(contentHeight, maxY)

-----------------------------------------------------------------------------
(* Properties of the Image Extent Calculator, checked under SpecFit.       *)

\* C4: for pixelHeight > 0 the rendered height is 500 / (width/height) when
\* width/height > 500/400 and min(pixelHeight, 400) otherwise (1000x500 gives
\* 250, 400x1000 gives 400), and the footprint is the rendered height plus the
\* image's top and bottom margins.
C4_FitRule ==
    Corrected =>
        \A id \in DOMAIN imageDimensions :
            LET d == imageDimensions[id]
                r == renderedHeight[id]
            IN  /\ id \in DOMAIN renderedHeight
                /\ d.height > 0 =>
                      /\ r.k = "fin"
                      /\ IF d.width * 400 > 500 * d.height
                         THEN r.n * d.width = 500 * d.height * r.d
                         ELSE r = Num(IF d.height < 400 THEN d.height ELSE 400)
                      /\ EqualsPlus(imageHeights[id], r, 10 + 10)
                /\ (d.width = 1000 /\ d.height = 500) => r = Num(250)
                /\ (d.width = 400 /\ d.height = 1000) => r = Num(400)

C4_Witness ==
    /\ Corrected
    /\ imageDimensions["img_0"] = [width |-> 1000, height |-> 500]
    /\ renderedHeight["img_0"] = Num(250)
    /\ imageHeights["img_0"] = Num(270)

\* C5 as stated: an image no larger than the fit box (0 < width <= 500,
\* 0 < height <= 400) is rendered no taller than its pixel height.
C5_NeverUpscaled ==
    Corrected =>
        \A id \in DOMAIN imageDimensions :
            LET d == imageDimensions[id]
            IN  (0 < d.width /\ d.width <= 500 /\ 0 < d.height /\ d.height <= 400)
                    => NGe(Num(d.height), renderedHeight[id])

-----------------------------------------------------------------------------
(* Properties of the Image Header Parser, checked under SpecImg.           *)

Parsed == ipc = "done"

\* the number held big-endian in the four bytes from 0-based offset off
BigEndian32(buf, off) ==
    ((buf[off + 1] * 256 + buf[off + 2]) * 256 + buf[off + 3]) * 256 + buf[off + 4]

\* C6: a buffer of at least 24 bytes declared image/png parses to the big-endian
\* uint32s at offsets 16 (width) and 20 (height) exactly when its first four
\* bytes are 89 50 4E 47, and to no dimensions otherwise.
C6_PngHeader ==
    (Parsed /\ mimeType = "image/png" /\ Len(buffer) >= 24) =>
        IF SubSeq(buffer, 1, 4) = <<137, 80, 78, 71>>
        THEN /\ result.kind = "dims"
             /\ result.width = BigEndian32(buffer, 16)
             /\ result.height = BigEndian32(buffer, 20)
             /\ (SubSeq(buffer, 17, 24) = <<0, 0, 3, 32, 0, 0, 2, 88>>
                    => (result.width = 800 /\ result.height = 600))
        ELSE result = Null

C6_Witness ==
    /\ Parsed
    /\ mimeType = "image/png"
    /\ Len(buffer) = 24
    /\ result = Dimensions(800, 600)

\* the segments before the first frame segment of ss, when ss has one
FirstSof(ss) == CHOOSE i \in 1..Len(ss) :
                    ss[i].kind = "sof" /\ \A j \in 1..(i - 1) : ss[j].kind # "sof"
HasSof(ss) == \E i \in 1..Len(ss) : ss[i].kind = "sof"

\* a payload-less SOI or RST marker, or a marker with a length that spans its payload
WellFormedSkip(seg) ==
    \/ seg.kind = "bare" /\ seg.m # 217
    \/ seg.kind = "len"

\* 0-based offset of the marker of segment i in head \o Stream(ss)
MarkerStart(ss, i) == Len(head) + Len(Stream(SubSeq(ss, 1, i - 1)))

\* C7: for a stream FFD8 followed by well-formed segments the parser returns the
\* dimensions of the first Start-Of-Frame segment, height read big-endian at
\* markerStart+5 and width at markerStart+7; FFD8 FFC0 0011 08 0140 0190 03
\* parses to width 400, height 320.
C7_JpegFirstFrame ==
    (/\ Parsed
     /\ mimeType = "image/jpeg"
     /\ head = <<255, 216>>
     /\ HasSof(segs)
     /\ \A j \in 1..(FirstSof(segs) - 1) : WellFormedSkip(segs[j])
     /\ Len(buffer) >= MarkerStart(segs, FirstSof(segs)) + 9)
    =>
        LET i == FirstSof(segs)
            ms == MarkerStart(segs, i)
        IN  /\ result = Dimensions(segs[i].width, segs[i].height)
            /\ result.height = buffer[ms + 6] * 256 + buffer[ms + 7]
            /\ result.width = buffer[ms + 8] * 256 + buffer[ms + 9]
            /\ (buffer = <<255, 216, 255, 192, 0, 17, 8, 1, 64, 1, 144, 3>>
                   => result = Dimensions(400, 320))

C7_Witness ==
    /\ Parsed
    /\ mimeType = "image/jpeg"
    /\ head = <<255, 216>>
    /\ Len(segs) = 2
    /\ segs[1].kind = "len"
    /\ segs[1].m = 225
    /\ segs[2] = Sof(192, 320, 400)
    /\ result = Dimensions(400, 320)

\* C8 as stated: getImageDimensions ends with dimensions or with none, never
\* with an exception.
C8_NeverThrows == Parsed => result.kind \in {"dims", "none"}

\* C9 as stated, its results: for a buffer of at least two bytes declared
\* image/jpeg the scan returns no result when the signature is not FFD8, when an
\* end-of-image marker comes before any frame marker, and when the stream ends
\* without a frame marker.
NoFrameBefore(ss, i) == \A j \in 1..(i - 1) : WellFormedSkip(ss[j])

C9_NoResult ==
    (Parsed /\ mimeType = "image/jpeg" /\ Len(buffer) >= 2) =>
        /\ head # <<255, 216>> => result = Null
        /\ (/\ head = <<255, 216>>
            /\ \E i \in 1..Len(segs) :
                  /\ segs[i] = Bare(217)
                  /\ NoFrameBefore(segs, i)
                  /\ Len(buffer) >= MarkerStart(segs, i) + 2)
           => result = Null
        /\ (head = <<255, 216>> /\ NoFrameBefore(segs, Len(segs) + 1))
           => result = Null

\* C9, its termination argument: every iteration that stays in the loop moves
\* the read offset forward.
C9_OffsetIncreases == [][(ipc = "scan" /\ ipc' = "scan") => offset' > offset]_vars

\* the image nodes of a tree
RECURSIVE ImageNodesOf(_)
ImageNodesOf(items) ==
    IF items = <<>> THEN {}
    ELSE LET item == Head(items)
         IN  (IF "image" \in DOMAIN item THEN {item} ELSE {})
             \cup (IF "stack" \in DOMAIN item THEN ImageNodesOf(item.stack) ELSE {})
             \cup (IF "columns" \in DOMAIN item THEN ImageNodesOf(item.columns) ELSE {})
             \cup ImageNodesOf(Tail(items))

\* C23: the fit box of the calculator, IMAGE_FIT_WIDTH x IMAGE_FIT_HEIGHT, is
\* the fit attribute of every image node handed to the layout engine, and the
\* margins added to an image's rendered height to give its footprint are the
\* top and bottom margins set on its node.
C23_FitBoxAgreement ==
    \A node \in ImageNodesOf(content) :
        /\ node.fit = <<IMAGE_FIT_WIDTH, IMAGE_FIT_HEIGHT>>
        /\ node.margin[2] = ImageMarginTop
        /\ node.margin[4] = ImageMarginBottom
        /\ (Corrected /\ node.image \in DOMAIN imageHeights) =>
              imageHeights[node.image] =
                  NAdd(renderedHeight[node.image], Num(node.margin[2] + node.margin[4]))

C23_Witness ==
    /\ Corrected
    /\ DOMAIN imageHeights # {}
    /\ \E node \in ImageNodesOf(content) :
          /\ node.image \in DOMAIN imageHeights
          /\ renderedHeight[node.image] = Num(node.fit[2])
    /\ \E i \in 1..Len(content) : "stack" \in DOMAIN content[i]

\* the bottom edge of image id in the page-folded coordinate space of maxY:
\* the page offset and top of the last callback for it, plus its footprint
FoldedImageBottom(id) ==
    LET node == LastCallbackFor(id)
    IN  NAdd(Num((node.startPosition.pageNumber - 1) * pageHeightUsable),
             NAdd(node.startPosition.top, imageHeights[id]))

\* C26: for every image with both a recorded top offset and a computed
\* footprint, the corrected extent is at least the image's bottom edge in the
\* page-folded coordinate space, (pageIndex-1) * pageUsableHeight + top +
\* footprint, also when the dry run placed the image on a later logical page.
C26_FoldedImageBottom ==
    Corrected =>
        \A id \in WithBoth :
            HasStart(LastCallbackFor(id)) => NGe(contentHeight, FoldedImageBottom(id))

-----------------------------------------------------------------------------
(* Properties of the final render, the resize and convert, checked under   *)
(* SpecPdf, SpecFonts and SpecLoop.                                        *)

Count(seq, x) == Cardinality({ i \in 1..Len(seq) : seq[i] = x })

\* pdfDoc has been loaded and its first page, if any, resized
Resized == pc \in {"removing", "saved", "written"}

\* C13: when the rendered artifact has at least one page, the resize sets the
\* first page's height to exactly the target height, leaves its width as
\* rendered, and translates its content once, by 0 horizontally and by
\* targetHeight - MAX_PAGE_HEIGHT vertically (target 600 on a canvas of 28346
\* gives -27746); the delta is 0 only when the target equals the canvas height.
C13_ResizeFirstPage ==
    /\ (Resized /\ Len(pdfBuffer) >= 1) =>
          /\ pages[1].orig = 1
          /\ pages[1].height = targetHeight
          /\ pages[1].width = pdfBuffer[1].width
          /\ pages[1].tx = Num(0)
          /\ EqualsPlus(pages[1].ty, targetHeight, -MAX_PAGE_HEIGHT)
          /\ pages[1].ty = Num(0) <=> targetHeight = Num(MAX_PAGE_HEIGHT)
          /\ Count(pdfOps, "setSize") = 1
          /\ Count(pdfOps, "translateContent") = 1
    /\ ~Resized => Count(pdfOps, "translateContent") = 0
    /\ contentShift(Num(600), 28346) = Num(-27746)

C13_Witness ==
    /\ pc = "written"
    /\ Len(pdfBuffer) = 2
    /\ NLt(pages[1].ty, Num(0))
    /\ NGt(imageHeightCorrection, Num(0))

\* C14 as stated: in every conversion the target height
\* topMargin + correctedExtent + bottomMargin + 25 is below MAX_PAGE_HEIGHT, so
\* the translation applied to the first page is negative.
C14_NegativeTranslation ==
    /\ (pc \in {"render", "rendering", "rendered"} \/ Resized) =>
          /\ EqualsPlus(targetHeight, contentHeight,
                        pageMargins[2] + pageMargins[4] + 25)
          /\ NLt(targetHeight, Num(MAX_PAGE_HEIGHT))
    /\ (Resized /\ Len(pdfBuffer) >= 1) => NLt(pages[1].ty, Num(0))

\* C15: for a rendered artifact of n >= 1 pages the removal loop ends, and the
\* saved artifact has exactly one page, the original first page, resized; the
\* n - 1 pages after it were removed.
C15_OnePageLeft ==
    /\ []((pc \in {"saved", "written"} /\ Len(pdfBuffer) >= 1) =>
            /\ Len(pages) = 1
            /\ pages[1].orig = 1
            /\ pages[1].height = targetHeight
            /\ Count(pdfOps, "removePage") = Len(pdfBuffer) - 1)
    /\ (pc = "removing" ~> pc = "saved")

C15_Witness ==
    /\ pc = "saved"
    /\ Len(pdfBuffer) = MaxPages
    /\ Len(pages) = 1
    /\ Count(pdfOps, "removePage") >= 1

\* C16: when the rendered artifact has zero pages the resize is skipped: no
\* getSize, setSize, translateContent or removePage is performed, nothing
\* fails, and the artifact is saved with its empty page set.
C16_ZeroPages ==
    (Resized /\ Len(pdfBuffer) = 0) =>
        /\ pages = <<>>
        /\ \A i \in 1..Len(pdfOps) : pdfOps[i] \in {"load", "getPages", "save"}
        /\ failure = "none"
        /\ pc = "written" => outputWritten

C16_Witness ==
    /\ pc = "written"
    /\ content # <<>>
    /\ pdfBuffer = <<>>
    /\ pdfOps = <<"load", "getPages", "save">>

\* what a font dictionary says, the arrays read through the heap
Contents(dict, h) ==
    [fam \in DOMAIN dict |->
        [st \in DOMAIN dict[fam] |->
            IF dict[fam][st].t = "ref" THEN <<"array">> \o h[dict[fam][st].r]
            ELSE <<"string", dict[fam][st].v>>]]

\* C17: each createPdf is directly preceded by the assignment of pdfmake.fonts
\* made by its own setupFonts; every registration is a fresh copy that says
\* what the caller's font definitions say and shares no array with them or
\* with another registration, so the caller's arrays are never written.
C17_FreshRegistration ==
    /\ \A i \in 1..Len(engineLog) :
          engineLog[i] = "createPdf" => (i > 1 /\ engineLog[i - 1] = "pdfmake.fonts=")
    /\ Count(engineLog, "createPdf") = Len(registrations)
    /\ Count(engineLog, "pdfmake.fonts=") = Len(registrations)
    /\ \A i \in 1..Len(registrations) :
          /\ RefsOf(registrations[i]) \cap RefsOf(fonts.fonts) = {}
          /\ \A j \in 1..(i - 1) :
                RefsOf(registrations[i]) \cap RefsOf(registrations[j]) = {}
    /\ \E system \in FontSystems :
          /\ fonts = system.fonts
          /\ \A r \in 1..Len(system.heap) : heap[r] = system.heap[r]
    /\ pc \in {"measure", "rendering"} =>
          Contents(registrations[Len(registrations)], heap)
              = Contents(fonts.fonts @@ BuiltinFonts, heap)

C17_Witness ==
    /\ pc = "written"
    /\ RefsOf(fonts.fonts) # {}
    /\ Len(registrations) = 2
    /\ \A i \in 1..2 : \A r \in RefsOf(registrations[i]) : heap[r] = ResolvedArray

\* the engine calls of one conversion, the vfs writes left out
EngineStages ==
    <<"pdfmake.fonts=", "createPdf", "getBuffer",
      "pdfmake.fonts=", "createPdf", "getBuffer">>
StagesDone == SelectSeq(engineLog, LAMBDA c : c # "vfs.writeFileSync")

\* C18: the stages run in order: the engine calls are a prefix of measurement
\* render then final render, the resize stage (load, setSize,
\* translateContent) begins only when both renders have completed, and the
\* height it sets is the target derived from this execution's measurement.
C18_Staged ==
    /\ StagesDone = SubSeq(EngineStages, 1, Len(StagesDone))
    /\ pdfOps # <<>> => StagesDone = EngineStages
    /\ Count(engineLog, "getBuffer") >= 1 =>
          \/ failure # "none"
          \/ pc \notin {"start", "measure"}
    /\ (Resized /\ Len(pdfBuffer) >= 1) =>
          /\ pages[1].height = targetHeight
          /\ targetHeight = targetHeightFor(contentHeight)
          /\ contentHeight =
                 IF NGt(SumOver(imageHeights, DOMAIN imageHeights), Num(0))
                 THEN NAdd(maxY, imageHeightCorrection) ELSE maxY
          /\ IsMaxOfZeroAnd(maxY,
                 { FoldedBottom(n) : n \in { m \in ObservedNodes :
                       "startPosition" \in DOMAIN m } })

C18_Witness ==
    /\ pc = "written"
    /\ Len(observed) = 2
    /\ Len(pdfBuffer) >= 1
    /\ NGt(imageHeightCorrection, Num(0))
    /\ NGt(maxY, Num(0))

\* C19: a failure of the measurement pass is fatal: generatePDF rejects
\* without a second render, a load or a resize, convert rejects with it, and
\* no output file is written; the measurement is not tried again.
C19_MeasureFailureFatal ==
    /\ failure = "measure" =>
          /\ pc \in {"failed", "rejected"}
          /\ Count(engineLog, "createPdf") = 1
          /\ Count(engineLog, "getBuffer") = 0
          /\ pdfBuffer = <<>>
          /\ pages = <<>>
          /\ pdfOps = <<>>
          /\ ~outputWritten
    /\ outputWritten => failure = "none"
    /\ pc \in {"failed", "rejected"} => failure # "none"

C19_Witness ==
    /\ pc = "rejected"
    /\ failure = "measure"
    /\ Len(observed) = 2
    /\ DOMAIN measuredImageHeights # {}

-----------------------------------------------------------------------------
(* Properties of image loading and placeholder substitution, checked under *)
(* SpecLoad.                                                               *)

\* the load of an image fails: unsupported type, missing file, failed fetch, or
\* an exception of the header parser
HeaderOf(info) ==
    getImageDimensions(info.bytes,
                       IF info.remote THEN info.contentType ELSE getMimeType(info.ext))
LoadFails(info) ==
    \/ info.remote /\ info.fetch # "ok"
    \/ info.remote /\ info.contentType \notin {"image/jpeg", "image/png"}
    \/ ~info.remote /\ info.ext \notin {"jpg", "jpeg", "png"}
    \/ ~info.remote /\ ~info.exists
    \/ HeaderOf(info) = RangeError
ImageInfos == { images[i] : i \in 1..Len(images) }
LoadedIds == { info.id : info \in { x \in ImageInfos : ~LoadFails(x) } }
ParsedIds ==
    { info.id : info \in { x \in ImageInfos : ~LoadFails(x) /\ HeaderOf(x) # Null } }

\* C28: whatever the order in which the loads settle, the data map holds
\* exactly the ids of the images that loaded, each with its own bytes, and the
\* dimensions map exactly the ids that loaded and whose header parsed (a subset
\* of the data ids); a failing load removes only its own id.
C28_OrderIndependent ==
    /\ \A i \in 1..Len(loadResults) :
          loadResults[i] # Pending => loadResults[i] = loadImage(images[i])
    /\ lpc \in {"loaded", "replaced"} =>
          /\ DOMAIN loadedImages.data = LoadedIds
          /\ DOMAIN loadedImages.dimensions = ParsedIds
          /\ DOMAIN loadedImages.dimensions \subseteq DOMAIN loadedImages.data
          /\ \A info \in ImageInfos :
                /\ info.id \in LoadedIds =>
                      loadedImages.data[info.id].bytes = info.bytes
                /\ info.id \in ParsedIds =>
                      /\ loadedImages.dimensions[info.id].width = HeaderOf(info).width
                      /\ loadedImages.dimensions[info.id].height = HeaderOf(info).height

C28_Witness ==
    /\ lpc = "loaded"
    /\ completionOrder = <<2, 1>>
    /\ HeaderOf(images[1]) = RangeError
    /\ DOMAIN loadedImages.data = {"img_1"}
    /\ DOMAIN loadedImages.dimensions = {"img_1"}

\* the second tree is the first with placeholders in place of the image nodes
\* whose id is not loaded, and nothing else changed
RECURSIVE SameButPlaceholders(_, _, _)
SameButPlaceholders(before, after, loaded) ==
    /\ Len(before) = Len(after)
    /\ \A i \in 1..Len(before) :
          LET old == before[i]
              new == after[i]
          IN  IF "image" \in DOMAIN old
              THEN new = (IF old.image \in loaded THEN old ELSE Placeholder)
              ELSE IF "stack" \in DOMAIN old
              THEN /\ DOMAIN new = DOMAIN old
                   /\ SameButPlaceholders(old.stack, new.stack, loaded)
              ELSE IF "columns" \in DOMAIN old
              THEN /\ DOMAIN new = DOMAIN old
                   /\ SameButPlaceholders(old.columns, new.columns, loaded)
              ELSE new = old

\* C27: after replaceFailedImages every image node reachable through stack and
\* columns children has a loaded id, each node with a missing id having become
\* a placeholder text node; the number and order of nodes at every level and
\* the nodes with loaded ids are unchanged; every id with a footprint is loaded.
C27_OnlyLoadedImages ==
    lpc = "replaced" =>
        /\ ImagesOf(processedContent) \subseteq DOMAIN loadedImages.data
        /\ ImagesOf(processedContent) =
               ImagesOf(renderedContent) \cap DOMAIN loadedImages.data
        /\ SameButPlaceholders(renderedContent, processedContent,
                               DOMAIN loadedImages.data)
        /\ DOMAIN calculateImageHeights(processedContent, loadedImages.dimensions)
               \subseteq DOMAIN loadedImages.data

C27_Witness ==
    /\ lpc = "replaced"
    /\ Len(images) = 2
    /\ DOMAIN loadedImages.data = {"img_0"}
    /\ processedContent # renderedContent
    /\ processedContent[2] = renderedContent[2]

\* C21 as stated: a parsed pixel height of zero (or a negative or NaN width or
\* height) is treated as no dimensions, so no image reaches the fit rule with
\* pixelHeight = 0 and none gets a footprint from it.
C21_InvalidDimensionsRejected ==
    lpc = "replaced" =>
        /\ \A id \in DOMAIN loadedImages.dimensions :
              /\ loadedImages.dimensions[id].height > 0
              /\ loadedImages.dimensions[id].width >= 0
        /\ \A id \in DOMAIN calculateImageHeights(processedContent,
                                                  loadedImages.dimensions) :
              loadedImages.dimensions[id].height # 0

-----------------------------------------------------------------------------
(* Properties of the command line, checked under SpecCli.                  *)

\* two strings that differ at most in the case of their letters
SameIgnoringCase(x, y) ==
    LET lower == "abcdefghijklmnopqrstuvwxyz"
        upper == "ABCDEFGHIJKLMNOPQRSTUVWXYZ"
        pairs == { <<SubSeq(lower, i, i), SubSeq(upper, i, i)>> : i \in 1..26 }
    IN  /\ Len(x) = Len(y)
        /\ \A i \in 1..Len(x) :
              LET c == SubSeq(x, i, i)
                  d == SubSeq(y, i, i)
              IN  c = d \/ <<c, d>> \in pairs \/ <<d, c>> \in pairs

PaperNames == { "A1", "A2", "A3", "A4", "A5", "B1", "B2", "B3", "B4", "B5" }
NamedPaper(v) == { n \in PaperNames : SameIgnoringCase(v, n) }

\* the value given to an option in a run of the shape  doc.md <option> <value>
\* or  <option> <value> doc.md
ValuesOf(options) ==
    { v \in Tokens :
        /\ Len(args) = 3
        /\ \/ args[1] = "doc.md" /\ args[2] \in options /\ args[3] = v
           \/ args[1] \in options /\ args[2] = v /\ args[3] = "doc.md" }

Converting == cpc \in {"generate", "done"}

C25_MarginOption ==
    /\ cpc # "start" =>
          \A v \in ValuesOf({"-m", "--margin"}) :
              toLowerCase(v) \notin {"default", "dense"} => "error" \in DOMAIN parsed
    /\ Converting =>
          "items" \in DOMAIN cliMargins /\ cliMargins.items \in MARGIN_PRESETS

====
